---- MODULE Spec2Model ----
(***************************************************************************)
(* CircularDict: an insertion-ordered dictionary that evicts its oldest    *)
(* entries when a count cap (maxlen) or a byte cap (maxsize_bytes) would   *)
(* be exceeded.  Model of src/circular_dict/CircularDict.py.               *)
(*                                                                         *)
(* A key object is a pair (identity, form): two key objects with the same  *)
(* identity are equal and hash alike (1, 1.0 and True in Python), but      *)
(* sys.getsizeof may measure the forms differently.  A value object is     *)
(* represented by the size sys.getsizeof reports for it now; the caller    *)
(* may mutate a stored value, which changes that size.                     *)
(***************************************************************************)
EXTENDS Integers, Sequences, FiniteSets, TLC

VARIABLES
    maxlen,           \* self.maxlen (None or an int)
    maxsize_bytes,    \* self.maxsize_bytes (None or an int)
    hook,             \* runtime variant: OrderedDict.pop/popitem call the overridden __delitem__
    order,            \* the OrderedDict's keys, oldest first
    items,            \* resident key |-> [form, vsize]: the stored key object and value
    current_size,     \* self.current_size
    accounted,        \* ghost: resident key |-> the cost added when it was last inserted
    last,             \* ghost: the last completed call, its arguments and its result
    ins,              \* ghost: the distinct keys inserted, in order, since the dict was empty
    lock,             \* self.lock (RLock): [owner, count]
    pc,               \* per thread: the statement it is at
    frame             \* per thread: the locals of the call it is in

vars == <<maxlen, maxsize_bytes, hook, order, items, current_size, accounted,
          last, ins, lock, pc, frame>>

config == <<maxlen, maxsize_bytes, hook>>
dict == <<order, items, current_size, accounted>>
threads == <<lock, pc, frame>>

(***************************************************************************)
(* Bounds of the model.                                                    *)
(***************************************************************************)
NumKeys == 3
MaxValSize == 2
MaxDrift == 1

None == -99

Keys == 1..NumKeys
Forms == {1, 2}
ValSizes == 1..MaxValSize
LenCaps == {1, 2}
ByteCaps == {3, 4}

\* sys.getsizeof of a key object of the given form, and of a value object
getsizeof_key(f) == f
getsizeof_value(s) == s

RECURSIVE SumSeq(_, _)
SumSeq(f, s) == IF s = <<>> THEN 0 ELSE f[Head(s)] + SumSeq(f, Tail(s))

(***************************************************************************)
(* The dictionary as a value, and the methods as operators on it.          *)
(***************************************************************************)
D == [order |-> order, items |-> items, current_size |-> current_size,
      accounted |-> accounted]

EmptyDict == [order |-> <<>>, items |-> <<>>, current_size |-> 0, accounted |-> <<>>]

Resident(d) == DOMAIN d.items

\* len(self)
len(d) == Len(d.order)

\* OrderedDict.__delitem__(self, key): the base removal, no accounting
base_delitem(d, k) ==
    [d EXCEPT !.order = SelectSeq(d.order, LAMBDA x : x # k),
              !.items = [x \in DOMAIN d.items \ {k} |-> d.items[x]],
              !.accounted = [x \in DOMAIN d.accounted \ {k} |-> d.accounted[x]]]

\* OrderedDict.__setitem__(self, key, value): a new key goes to the newest position
base_setitem(d, k, f, v) ==
    [d EXCEPT !.order = IF k \in DOMAIN d.items THEN d.order ELSE Append(d.order, k),
              !.items = [x \in DOMAIN d.items \cup {k} |->
                            IF x = k
                            THEN [form |-> IF k \in DOMAIN d.items THEN d.items[k].form ELSE f,
                                  vsize |-> v]
                            ELSE d.items[x]],
              !.accounted = [x \in DOMAIN d.accounted \cup {k} |->
                                IF x = k THEN getsizeof_key(f) + getsizeof_value(v)
                                ELSE d.accounted[x]]]

\* the size __delitem__ and pop measure for key object (k, f) and the value stored under k
measured(d, k, f) == getsizeof_key(f) + getsizeof_value(d.items[k].vsize)

\* a __delitem__ that forgets line 134
delitem_unaccounted(d, k, f) ==
    IF k \in Resident(d) THEN base_delitem(d, k) ELSE d

\* a __delitem__ that subtracts the size of the key object before the test of line 132
delitem_unguarded(d, k, f) ==
    IF k \in Resident(d)
    THEN base_delitem([d EXCEPT !.current_size = d.current_size - measured(d, k, f)], k)
    ELSE [d EXCEPT !.current_size = d.current_size - getsizeof_key(f)]

\* CircularDict.__delitem__(self, key)
delitem(d, k, f) ==
    IF k \in Resident(d)
    THEN base_delitem([d EXCEPT !.current_size = d.current_size - measured(d, k, f)], k)
    ELSE d

\* super().pop(key) / super().popitem(): through the overridden __delitem__ or not
base_pop(d, k, f, h) == IF h THEN delitem(d, k, f) ELSE base_delitem(d, k)

\* lines 153-163 without the branch of line 160: only the assertion is left
pop_fix_assert_only(d, prev_size, element_size) ==
    IF d.current_size = prev_size - element_size
    THEN [d |-> d, outcome |-> "ok"]
    ELSE [d |-> d, outcome |-> "AssertionError"]

\* the accounting after super().pop / super().popitem (lines 153-163, 180-189)
pop_fix(d, prev_size, element_size) ==
    IF d.current_size = prev_size
    THEN [d |-> [d EXCEPT !.current_size = d.current_size - element_size], outcome |-> "ok"]
    ELSE IF d.current_size = prev_size - element_size
         THEN [d |-> d, outcome |-> "ok"]
         ELSE [d |-> d, outcome |-> "AssertionError"]

Defaults == {None, 1}

\* a pop that forgets line 151
pop_without_default(d, k, f, default) ==
    IF k \notin Resident(d)
    THEN [d |-> d, outcome |-> "KeyError", ret |-> None]
    ELSE LET fix == pop_fix(base_pop(d, k, f, hook), d.current_size, measured(d, k, f))
         IN  [d |-> fix.d, outcome |-> fix.outcome, ret |-> d.items[k].vsize]

\* CircularDict.pop(self, key, default)
pop(d, k, f, default) ==
    IF k \notin Resident(d)
    THEN IF default = None
         THEN [d |-> d, outcome |-> "KeyError", ret |-> None]
         ELSE [d |-> d, outcome |-> "ok", ret |-> default]
    ELSE LET fix == pop_fix(base_pop(d, k, f, hook), d.current_size, measured(d, k, f))
         IN  [d |-> fix.d, outcome |-> fix.outcome, ret |-> d.items[k].vsize]

\* CircularDict.popitem(self, last)
popitem(d, lst) ==
    IF d.order = <<>>
    THEN [d |-> d, outcome |-> "KeyError", key |-> None, ret |-> None]
    ELSE LET k == IF lst THEN d.order[Len(d.order)] ELSE Head(d.order)
             f == d.items[k].form
             fix == pop_fix(base_pop(d, k, f, hook), d.current_size, measured(d, k, f))
         IN  [d |-> fix.d, outcome |-> fix.outcome, key |-> k, ret |-> d.items[k].vsize]

\* line 106: the item alone is larger than the byte cap
too_large(item_size) == maxsize_bytes # None /\ item_size > maxsize_bytes

\* line 115 with >= for >
over_bytes_eager(d, item_size) ==
    maxsize_bytes # None /\ d.current_size + item_size >= maxsize_bytes

\* line 115: the condition of the byte eviction loop
over_bytes(d, item_size) == maxsize_bytes # None /\ d.current_size + item_size > maxsize_bytes

\* line 118 with > for >=
over_len_strict(d) == maxlen # None /\ len(d) > maxlen

\* line 118: the condition of the count eviction loop
over_len(d) == maxlen # None /\ len(d) >= maxlen

\* an eviction loop that calls self.popitem() with its default, last=True
evict_newest(r) ==
    LET p == popitem(r.d, TRUE)
    IN  [d |-> p.d, outcome |-> p.outcome,
         evicted |-> IF p.key = None THEN r.evicted ELSE Append(r.evicted, p.key)]

\* one self.popitem(last=False) of an eviction loop, on the loop's running result
evict_oldest(r) ==
    LET p == popitem(r.d, FALSE)
    IN  [d |-> p.d, outcome |-> p.outcome,
         evicted |-> IF p.key = None THEN r.evicted ELSE Append(r.evicted, p.key)]

\* lines 115-116
RECURSIVE evict_bytes(_, _)
evict_bytes(r, item_size) ==
    IF r.outcome = "ok" /\ over_bytes(r.d, item_size)
    THEN evict_bytes(evict_oldest(r), item_size)
    ELSE r

\* a count loop whose body calls popitem twice, without the assertion
evict_len_twice(r) ==
    IF r.outcome = "ok" /\ over_len(r.d) THEN evict_oldest(evict_oldest(r)) ELSE r

\* lines 118-120
RECURSIVE evict_len(_)
evict_len(r) ==
    IF r.outcome = "ok" /\ over_len(r.d)
    THEN IF len(r.d) = maxlen
         THEN evict_len(evict_oldest(r))
         ELSE [r EXCEPT !.outcome = "AssertionError"]
    ELSE r

\* a __setitem__ without lines 111-112
keep_stale(d, k, f) == d

\* lines 111-112: the stale copy of the key goes first
drop_stale(d, k, f) == IF k \in Resident(d) THEN delitem(d, k, f) ELSE d

\* lines 122-123
insert(d, k, f, v, item_size) ==
    [base_setitem(d, k, f, v) EXCEPT !.current_size = d.current_size + item_size]

\* a __setitem__ that tests line 106 inside the lock, after lines 111-112
setitem_check_late(d, k, f, v) ==
    LET item_size == getsizeof_key(f) + getsizeof_value(v)
        d1 == drop_stale(d, k, f)
    IN  IF too_large(item_size)
        THEN [d |-> d1, outcome |-> "MemoryError", evicted |-> <<>>]
        ELSE LET r == evict_len(evict_bytes([d |-> d1, outcome |-> "ok",
                                             evicted |-> <<>>], item_size))
             IN  IF r.outcome = "ok"
                 THEN [r EXCEPT !.d = insert(r.d, k, f, v, item_size)]
                 ELSE r

\* CircularDict.__setitem__(self, key, value)
setitem(d, k, f, v) ==
    LET item_size == getsizeof_key(f) + getsizeof_value(v)
    IN  IF too_large(item_size)
        THEN [d |-> d, outcome |-> "MemoryError", evicted |-> <<>>]
        ELSE LET r == evict_len(evict_bytes([d |-> drop_stale(d, k, f), outcome |-> "ok",
                                             evicted |-> <<>>], item_size))
             IN  IF r.outcome = "ok"
                 THEN [r EXCEPT !.d = insert(r.d, k, f, v, item_size)]
                 ELSE r

\* CircularDict.clear(self)
clear(d) == EmptyDict

\* CircularDict.is_empty(self)
is_empty(d) ==
    IF len(d) = 0
    THEN IF d.current_size = 0 THEN "True" ELSE "AssertionError"
    ELSE "False"

\* an is_full whose line 84 tests len(self) > self.maxlen
is_full_above(d) ==
    IF maxsize_bytes # None /\ ~(d.current_size <= maxsize_bytes) THEN "AssertionError"
    ELSE IF maxlen # None /\ ~(len(d) <= maxlen) THEN "AssertionError"
    ELSE IF \/ maxlen # None /\ len(d) > maxlen
            \/ maxsize_bytes # None /\ d.current_size = maxsize_bytes
         THEN "True" ELSE "False"

\* CircularDict.is_full(self)
is_full(d) ==
    IF maxsize_bytes # None /\ ~(d.current_size <= maxsize_bytes) THEN "AssertionError"
    ELSE IF maxlen # None /\ ~(len(d) <= maxlen) THEN "AssertionError"
    ELSE IF \/ maxlen # None /\ len(d) = maxlen
            \/ maxsize_bytes # None /\ d.current_size = maxsize_bytes
         THEN "True" ELSE "False"

\* a lookup that moves the key it finds to the newest position, as an LRU cache does
getitem_lru(d, k) ==
    IF k \in Resident(d)
    THEN [d |-> [d EXCEPT !.order = Append(SelectSeq(d.order, LAMBDA x : x # k), k)],
          outcome |-> "ok", ret |-> d.items[k].vsize]
    ELSE [d |-> d, outcome |-> "KeyError", ret |-> None]

\* d[key]: __getitem__ is not overridden, the lookup of OrderedDict
getitem(d, k) ==
    IF k \in Resident(d)
    THEN [d |-> d, outcome |-> "ok", ret |-> d.items[k].vsize]
    ELSE [d |-> d, outcome |-> "KeyError", ret |-> None]

\* key in d: __contains__ is not overridden
contains(d, k) == k \in Resident(d)

\* list(d): __iter__ is not overridden, the keys oldest first
keys(d) == d.order

\* the caller mutates the value object stored under k: it now measures s
mutate(d, k, s) == [d EXCEPT !.items[k].vsize = s]

(***************************************************************************)
(* Spec: one caller; every call is one step.                               *)
(***************************************************************************)
Threads == {1, 2}

\* the locals of a thread that is in no call; calls counts the calls it has made
NoFrame == [key |-> None, form |-> None, vsize |-> None, item_size |-> None,
            prev_size |-> None, element_size |-> None, dkey |-> None, dform |-> None,
            lst |-> FALSE, stack |-> <<>>, calls |-> 0]

\* the ghost cost of the resident entries, and how far current_size is from it
AccountedSum(d) == SumSeq(d.accounted, d.order)
Drift(d) == d.current_size - AccountedSum(d)
DriftOK(d) == Drift(d) <= MaxDrift /\ -Drift(d) <= MaxDrift

\* nothing observed
NoObs == [len |-> None, current_size |-> None, is_full |-> "None"]

Caps == {c \in (LenCaps \cup {None}) \X (ByteCaps \cup {None}) : c # <<None, None>>}

NoCall == [op |-> "init", key |-> None, form |-> None, vsize |-> None, outcome |-> "ok",
           evicted |-> <<>>, resident |-> FALSE, ret |-> None, before |-> NoObs]

\* CircularDict.__init__, with the caps the caller passes
InitObject ==
    /\ \E c \in Caps : maxlen = c[1] /\ maxsize_bytes = c[2]
    /\ hook \in BOOLEAN
    /\ order = <<>>
    /\ items = <<>>
    /\ current_size = 0
    /\ accounted = <<>>
    /\ lock = [owner |-> None, count |-> 0]

Init ==
    /\ InitObject
    /\ last = NoCall
    /\ ins = [valid |-> TRUE, keys |-> <<>>]
    /\ pc = [t \in Threads |-> "idle"]
    /\ frame = [t \in Threads |-> NoFrame]

Put(d) ==
    /\ order' = d.order
    /\ items' = d.items
    /\ current_size' = d.current_size
    /\ accounted' = d.accounted

\* ghost: the record of a call; a call that never measures its key object
\* (the key is absent) is recorded with form None
Call(op, k, f, v, outcome, evicted, ret) ==
    [op |-> op, key |-> k, form |-> f, vsize |-> v, outcome |-> outcome,
     evicted |-> evicted, resident |-> k \in Resident(D), ret |-> ret, before |-> NoObs]

\* what a caller can observe of the dictionary d through len, current_size and is_full
Observed(d) == [len |-> len(d), current_size |-> d.current_size, is_full |-> is_full(d)]

\* the ghost insertion history after a mutating call that leaves the dictionary d
Restart(d) == IF d.order = <<>> THEN [valid |-> TRUE, keys |-> <<>>]
              ELSE [valid |-> FALSE, keys |-> <<>>]

\* ghost: set(k, v) right after delete(k) took the resident value v out
Redoes(k, f, v) ==
    /\ last.op = "delete" /\ last.resident
    /\ last.key = k /\ last.form = f /\ last.vsize = v

SetItem(k, f, v) ==
    \E r \in {setitem(D, k, f, v)} :
        /\ DriftOK(r.d)
        /\ Put(r.d)
        /\ last' = [Call("set", k, f, v, r.outcome, r.evicted, None)
                        EXCEPT !.before = IF Redoes(k, f, v) THEN last.before ELSE NoObs]
        /\ ins' = IF r.outcome = "ok" /\ ins.valid /\ \A i \in DOMAIN ins.keys : ins.keys[i] # k
                  THEN [ins EXCEPT !.keys = Append(ins.keys, k)]
                  ELSE Restart(r.d)
        /\ UNCHANGED <<config, threads>>

DelItem(k, f) ==
    \E d \in {delitem(D, k, f)} :
        /\ DriftOK(d)
        /\ Put(d)
        /\ last' = [Call("delete", k, IF k \in Resident(D) THEN f ELSE None,
                         IF k \in Resident(D) THEN items[k].vsize ELSE None,
                         "ok", <<>>, None) EXCEPT !.before = Observed(D)]
        /\ ins' = Restart(d)
        /\ UNCHANGED <<config, threads>>

Pop(k, f, default) ==
    \E r \in {pop(D, k, f, default)} :
        /\ DriftOK(r.d)
        /\ Put(r.d)
        /\ last' = Call("pop", k, IF k \in Resident(D) THEN f ELSE None, default,
                        r.outcome, <<>>, r.ret)
        /\ ins' = Restart(r.d)
        /\ UNCHANGED <<config, threads>>

PopItem(lst) ==
    \E r \in {popitem(D, lst)} :
        /\ DriftOK(r.d)
        /\ Put(r.d)
        /\ last' = Call(IF lst THEN "popitem_newest" ELSE "popitem_oldest", r.key, None,
                        None, r.outcome, <<>>, r.ret)
        /\ ins' = Restart(r.d)
        /\ UNCHANGED <<config, threads>>

Clear ==
    /\ Put(clear(D))
    /\ last' = Call("clear", None, None, None, "ok", <<>>, None)
    /\ ins' = Restart(clear(D))
    /\ UNCHANGED <<config, threads>>

IsEmpty ==
    /\ last' = Call("is_empty", None, None, None,
                    IF is_empty(D) = "AssertionError" THEN "AssertionError" ELSE "ok",
                    <<>>, is_empty(D))
    /\ UNCHANGED <<config, dict, ins, threads>>

IsFull ==
    /\ last' = Call("is_full", None, None, None,
                    IF is_full(D) = "AssertionError" THEN "AssertionError" ELSE "ok",
                    <<>>, is_full(D))
    /\ UNCHANGED <<config, dict, ins, threads>>

GetItem(k) ==
    \E r \in {getitem(D, k)} :
        /\ Put(r.d)
        /\ last' = Call("getitem", k, None, None, r.outcome, <<>>, r.ret)
        /\ UNCHANGED <<config, ins, threads>>

Contains(k) ==
    /\ last' = Call("contains", k, None, None, "ok", <<>>, contains(D, k))
    /\ UNCHANGED <<config, dict, ins, threads>>

Length ==
    /\ last' = Call("len", None, None, None, "ok", <<>>, len(D))
    /\ UNCHANGED <<config, dict, ins, threads>>

Iterate ==
    /\ last' = Call("iter", None, None, None, "ok", <<>>, keys(D))
    /\ UNCHANGED <<config, dict, ins, threads>>

\* the caller changes a value object it had stored (a list it appends to)
Mutate(k, s) ==
    /\ k \in Resident(D)
    /\ items[k].vsize # s
    /\ Put(mutate(D, k, s))
    /\ last' = Call("mutate", k, None, s, "ok", <<>>, None)
    /\ UNCHANGED <<config, ins, threads>>

Next ==
    \/ \E k \in Keys, f \in Forms, v \in ValSizes : SetItem(k, f, v)
    \/ \E k \in Keys, f \in Forms : DelItem(k, f)
    \/ \E k \in Keys, f \in Forms, default \in Defaults : Pop(k, f, default)
    \/ \E lst \in BOOLEAN : PopItem(lst)
    \/ Clear
    \/ IsEmpty
    \/ IsFull
    \/ \E k \in Keys, s \in ValSizes : Mutate(k, s)

Spec == Init /\ [][Next]_vars

(***************************************************************************)
(* SpecNew: the constructor is called with any caps, positive or not, and  *)
(* the one caller then uses the object it got, if it got one.              *)
(***************************************************************************)
\* lines 20-25: sys.getsizeof works in this environment (CPython)
getsizeof_available == TRUE

\* the caps a caller can pass to the constructor
AnyCaps == (LenCaps \cup {None, 0, -1}) \X (ByteCaps \cup {None, 0, -1})

\* CircularDict.__init__(self, maxlen, maxsize_bytes), lines 46-50: what it raises
init(ml, mb) ==
    IF ~(ml # None \/ mb # None) THEN "AssertionError"
    ELSE IF ~getsizeof_available /\ ~(mb = None) THEN "AssertionError"
    ELSE "ok"

\* the constructor has been called with the caps in maxlen and maxsize_bytes
InitNew ==
    /\ \E c \in AnyCaps : maxlen = c[1] /\ maxsize_bytes = c[2]
    /\ hook \in BOOLEAN
    /\ order = <<>>
    /\ items = <<>>
    /\ current_size = 0
    /\ accounted = <<>>
    /\ lock = [owner |-> None, count |-> 0]
    /\ last = [NoCall EXCEPT !.op = "new"]
    /\ ins = [valid |-> TRUE, keys |-> <<>>]
    /\ pc = [t \in Threads |-> "idle"]
    /\ frame = [t \in Threads |-> NoFrame]

\* __init__ runs: lines 46-58
New ==
    /\ last.op = "new"
    /\ last' = [NoCall EXCEPT !.outcome = init(maxlen, maxsize_bytes)]
    /\ UNCHANGED <<config, dict, ins, threads>>

\* __init__ returned: there is an object to call
Constructed == last.op # "new" /\ ~(last.op = "init" /\ last.outcome # "ok")

NextNew ==
    \/ New
    \/ Constructed /\ Next

SpecNew == InitNew /\ [][NextNew]_vars

(***************************************************************************)
(* SpecWide: one caller and a count cap that lets every key be resident at *)
(* once, so that an entry can be taken from between two others.  The       *)
(* values the caller stores all measure the same and it leaves them alone. *)
(***************************************************************************)
InitWide ==
    /\ maxlen = NumKeys /\ maxsize_bytes = None
    /\ hook \in BOOLEAN
    /\ order = <<>>
    /\ items = <<>>
    /\ current_size = 0
    /\ accounted = <<>>
    /\ lock = [owner |-> None, count |-> 0]
    /\ last = NoCall
    /\ ins = [valid |-> TRUE, keys |-> <<>>]
    /\ pc = [t \in Threads |-> "idle"]
    /\ frame = [t \in Threads |-> NoFrame]

NextWide ==
    \/ \E k \in Keys, f \in Forms : SetItem(k, f, 1)
    \/ \E k \in Keys, f \in Forms : DelItem(k, f)
    \/ \E k \in Keys, f \in Forms, default \in Defaults : Pop(k, f, default)
    \/ \E lst \in BOOLEAN : PopItem(lst)
    \/ Clear

SpecWide == InitWide /\ [][NextWide]_vars

(***************************************************************************)
(* SpecReads: one caller that also reads the dictionary between its        *)
(* mutations, under every combination of caps.  The values it stores all   *)
(* measure the same and it leaves them alone.                              *)
(***************************************************************************)
NextReads ==
    \/ \E k \in Keys, f \in Forms : SetItem(k, f, 1)
    \/ \E k \in Keys, f \in Forms : DelItem(k, f)
    \/ \E k \in Keys, f \in Forms, default \in Defaults : Pop(k, f, default)
    \/ \E lst \in BOOLEAN : PopItem(lst)
    \/ Clear
    \/ IsEmpty
    \/ IsFull
    \/ \E k \in Keys : GetItem(k)
    \/ \E k \in Keys : Contains(k)
    \/ Length
    \/ Iterate

SpecReads == Init /\ [][NextReads]_vars

(***************************************************************************)
(* Vocabulary of the properties.                                           *)
(***************************************************************************)
Newest(s) == s[Len(s)]

LastN(s, n) == IF Len(s) <= n THEN s ELSE SubSeq(s, Len(s) - n + 1, Len(s))

\* what sys.getsizeof reports now for the stored key object and value of resident key k
StoredCost(k) == getsizeof_key(items[k].form) + getsizeof_value(items[k].vsize)

RECURSIVE StoredCostOf(_)
StoredCostOf(s) == IF s = <<>> THEN 0 ELSE StoredCost(Head(s)) + StoredCostOf(Tail(s))

\* the step is a completed call of the given kind
Did(op) == last'.op = op

Removals == {"delete", "pop", "popitem_oldest", "popitem_newest", "set"}

\* the cost of the item a set call was given
ItemCost(call) == getsizeof_key(call.form) + getsizeof_value(call.vsize)

\* the cost of key object (k, f) with the value now stored under k
CostWithOld(k, f) == getsizeof_key(f) + getsizeof_value(items[k].vsize)

(***************************************************************************)
(* C2: under a byte cap B, current_size never exceeds B; and inserting one *)
(* more item of cost C into a dictionary that holds n items of cost C      *)
(* under B = n*C evicts exactly the oldest item and leaves n items and     *)
(* current_size = n*C.                                                     *)
(***************************************************************************)
C2_HoldsItemsOfCost(c) ==
    /\ order # <<>>
    /\ maxsize_bytes = Len(order) * c
    /\ \A k \in Resident(D) : StoredCost(k) = c /\ accounted[k] = c

C2_NinthItem ==
    (/\ Did("set")
     /\ maxsize_bytes # None
     /\ last'.key \notin Resident(D)
     /\ C2_HoldsItemsOfCost(ItemCost(last')))
    => /\ last'.outcome = "ok"
       /\ last'.evicted = <<Head(order)>>
       /\ Len(order') = Len(order)
       /\ current_size' = maxsize_bytes

\* C2: current_size never exceeds the byte cap, and the item added to a
\* dictionary that is full of items of its cost replaces exactly the oldest
C2_ByteCap ==
    /\ [](maxsize_bytes # None => current_size <= maxsize_bytes)
    /\ [][C2_NinthItem]_vars

(***************************************************************************)
(* C3: whenever no thread holds the lock, current_size is the sum of the   *)
(* costs of the resident entries (0 for the empty dictionary).             *)
(***************************************************************************)
C3_SizeIsSumOfResidentCosts ==
    /\ lock.owner = None => current_size = AccountedSum(D)
    /\ last.op = "clear" => current_size = 0

(***************************************************************************)
(* C6: every removal path takes from current_size exactly the cost that    *)
(* was added when the entry was inserted, and so current_size is 0         *)
(* whenever the dictionary is empty.                                       *)
(***************************************************************************)
C6_RemovalStep ==
    last'.op \in Removals =>
        current_size' - AccountedSum(D)' = current_size - AccountedSum(D)

\* C6: removals take the insert-time cost from current_size, which is
\* therefore 0 whenever the dictionary is empty
C6_InsertTimeCostOnRemoval ==
    /\ [][C6_RemovalStep]_vars
    /\ [](order = <<>> => current_size = 0)

(***************************************************************************)
(* C10: is_empty() is true iff the dictionary has no entries, and its      *)
(* check that current_size is 0 then never fails.                          *)
(***************************************************************************)
C10_IsEmptyIffNoEntries ==
    /\ is_empty(D) = "True" <=> len(D) = 0
    /\ is_empty(D) # "AssertionError"
    /\ len(D) = 0 => current_size = 0

(***************************************************************************)
(* C4: with only maxlen = N set, after inserting N+k items with pairwise   *)
(* distinct keys into an empty dictionary, it holds exactly the N most     *)
(* recently inserted keys, oldest first, the k earliest keys are absent,   *)
(* and is_full() is true from the N-th insertion on.                       *)
(***************************************************************************)
C4_KeepsNewestN ==
    (maxlen # None /\ maxsize_bytes = None /\ ins.valid /\ ins.keys # <<>>)
    => /\ order = LastN(ins.keys, maxlen)
       /\ \A i \in 1..(Len(ins.keys) - maxlen) : ins.keys[i] \notin Resident(D)
       /\ Len(ins.keys) >= maxlen => is_full(D) = "True"

C4_Overflowed ==
    /\ maxlen = 2 /\ maxsize_bytes = None
    /\ ins.valid /\ Len(ins.keys) = maxlen + 1
    /\ last.op = "set" /\ last.evicted # <<>>

(***************************************************************************)
(* C5: set(k, v_new) of a resident key k with an admissible item moves k   *)
(* to the newest position, evicts no other entry (the count is unchanged)  *)
(* and changes current_size by cost(k, v_new) - cost(k, v_old).            *)
(* As amended: this holds when the update needs no room under the byte     *)
(* cap, that is when maxsize_bytes is unset or current_size -              *)
(* cost(k, v_old) + cost(k, v_new) <= maxsize_bytes; both costs are        *)
(* measured when set is called, with the key object set was given.         *)
(***************************************************************************)
C5_IsUpdate ==
    /\ Did("set")
    /\ last'.resident
    /\ ~(maxsize_bytes # None /\ ItemCost(last') > maxsize_bytes)

C5_Updated ==
    /\ last'.outcome = "ok"
    /\ Newest(order') = last'.key
    /\ Len(order') = Len(order)
    /\ last'.evicted = <<>>
    /\ current_size' - current_size = ItemCost(last') - CostWithOld(last'.key, last'.form)

C5_FitsWithoutEviction ==
    \/ maxsize_bytes = None
    \/ current_size - CostWithOld(last'.key, last'.form) + ItemCost(last') <= maxsize_bytes

C7_RejectStep ==
    (Did("set") /\ maxsize_bytes # None /\ ItemCost(last') > maxsize_bytes)
    => /\ last'.outcome = "MemoryError"
       /\ order' = order
       /\ items' = items
       /\ current_size' = current_size

\* C7: a set of an item larger than the byte cap raises MemoryError and
\* changes nothing
C7_TooLargeIsRejected == [][C7_RejectStep]_vars

C7_RejectedResidentKey ==
    /\ last.op = "set" /\ last.outcome = "MemoryError"
    /\ last.resident
    /\ last.key \in Resident(D)

(***************************************************************************)
(* C8: with both caps set, after every completed set both caps hold, and   *)
(* the entries it evicted are exactly the shortest prefix of the           *)
(* oldest-first order (without the stale copy of the key) whose removal    *)
(* makes room for the item under both caps.                                *)
(***************************************************************************)
\* the order without the stale copy of key k
C8_Base(k) == SelectSeq(order, LAMBDA x : x # k)

\* current_size once the stale copy of the key of the call is gone
C8_SizeWithoutStale(call) ==
    current_size - (IF call.key \in Resident(D) THEN CostWithOld(call.key, call.form) ELSE 0)

\* evicting the j oldest entries makes room for the item under both caps
C8_Room(call, j) ==
    /\ C8_SizeWithoutStale(call) - StoredCostOf(SubSeq(C8_Base(call.key), 1, j))
           + ItemCost(call) <= maxsize_bytes
    /\ Len(C8_Base(call.key)) - j < maxlen

C8_SetStep ==
    (Did("set") /\ last'.outcome = "ok" /\ maxlen # None /\ maxsize_bytes # None)
    => /\ Len(order') <= maxlen
       /\ current_size' <= maxsize_bytes
       /\ \E j \in 0..Len(C8_Base(last'.key)) :
            /\ C8_Room(last', j)
            /\ \A i \in 0..(j - 1) : ~C8_Room(last', i)
            /\ last'.evicted = SubSeq(C8_Base(last'.key), 1, j)
            /\ order' = Append(SubSeq(C8_Base(last'.key), j + 1, Len(C8_Base(last'.key))),
                               last'.key)

\* C8: a completed set under both caps leaves both caps respected and has
\* evicted exactly the shortest oldest-first prefix that makes room
C8_EvictsShortestPrefix == [][C8_SetStep]_vars

C8_EvictedTwo ==
    /\ last.op = "set" /\ last.outcome = "ok"
    /\ maxlen # None /\ maxsize_bytes # None
    /\ Len(last.evicted) = 2

(***************************************************************************)
(* C9: delete(k) of a resident key followed by set(k, v) of the value it   *)
(* had restores current_size and the count, evicts nothing, puts k newest, *)
(* and restores is_full() if it was true; is_full() is false in between.   *)
(* As amended: provided the item is admissible when it is set again        *)
(* (maxsize_bytes unset, or cost(k) + cost(v) <= maxsize_bytes as measured *)
(* then); otherwise set fails with MemoryError and k stays deleted.        *)
(***************************************************************************)
C9_Restored ==
    /\ last.outcome = "ok"
    /\ current_size = last.before.current_size
    /\ len(D) = last.before.len
    /\ last.evicted = <<>>
    /\ Newest(order) = last.key
    /\ last.before.is_full = "True" => is_full(D) = "True"

C9_NotFullInBetween ==
    (last.op = "delete" /\ last.resident) => is_full(D) = "False"

\* C9 as claimed: delete(k) then set(k, v) restores size, count, position
\* and fullness, and the dictionary is not full in between
C9_DeleteThenSetRestores ==
    /\ C9_NotFullInBetween
    /\ (last.op = "set" /\ last.before # NoObs) => C9_Restored

\* C9 as amended: so it is when the item is admissible at the time it is set again
C9_DeleteThenSetRestoresIfAdmissible ==
    /\ C9_NotFullInBetween
    /\ (/\ last.op = "set" /\ last.before # NoObs
        /\ ~(maxsize_bytes # None /\ ItemCost(last) > maxsize_bytes)) => C9_Restored

C9_RefilledToFull ==
    /\ last.op = "set" /\ last.before # NoObs
    /\ last.before.is_full = "True"
    /\ maxsize_bytes # None
    /\ Len(order) = 2

(***************************************************************************)
(* SpecConc: threads call the methods concurrently.  A step is one         *)
(* statement that changes the dictionary or current_size, together with    *)
(* the reads and tests before it; "with self.lock" is entered at the start *)
(* of the first step of a method and left at the end of its last one.      *)
(* pc[t] is the statement thread t is at, frame[t].stack the statements    *)
(* its callers resume at.                                                  *)
(***************************************************************************)
MaxCalls == 2

\* the keys thread t uses: each thread has its own, as in concurrency_test
KeysOf(t) == {k \in Keys : k % 2 = t % 2}

Free(t) == lock.owner \in {None, t}

\* self.lock after thread t entered (n = 1), left (n = -1) or passed through (n = 0)
LockAfter(t, n) ==
    [owner |-> IF lock.count + n = 0 THEN None ELSE t, count |-> lock.count + n]

Goto(t, label, f) == pc' = [pc EXCEPT ![t] = label] /\ frame' = [frame EXCEPT ![t] = f]

\* the method returns: to the statement of its caller, or out of the call
Return(t, f) ==
    IF f.stack = <<>>
    THEN Goto(t, "idle", [NoFrame EXCEPT !.calls = f.calls])
    ELSE Goto(t, Head(f.stack), [f EXCEPT !.stack = Tail(f.stack)])

\* an exception that leaves the method with the lock still held
raise_holding_lock(t) ==
    /\ lock' = lock
    /\ Goto(t, "idle", [NoFrame EXCEPT !.calls = frame[t].calls])

\* an exception leaves every "with self.lock" block of the thread
Raise(t) ==
    /\ lock' = [owner |-> None, count |-> 0]
    /\ Goto(t, "idle", [NoFrame EXCEPT !.calls = frame[t].calls])

Idle(t) == pc[t] = "idle" /\ frame[t].calls < MaxCalls

Enter(t, label, f) == Goto(t, label, [f EXCEPT !.calls = frame[t].calls + 1])

\* d[key] = value, lines 102-107: the item is measured and refused before the lock
CallSetItem(t, k, f, v) ==
    /\ Idle(t)
    /\ LET item_size == getsizeof_key(f) + getsizeof_value(v)
       IN  IF too_large(item_size)
           THEN Goto(t, "idle", [NoFrame EXCEPT !.calls = frame[t].calls + 1])
           ELSE Enter(t, "set_stale", [frame[t] EXCEPT !.key = k, !.form = f, !.vsize = v,
                                                        !.item_size = item_size])
    /\ UNCHANGED <<config, dict, last, ins, lock>>

\* lines 109-112
SetStale(t) ==
    /\ pc[t] = "set_stale"
    /\ Free(t)
    /\ lock' = LockAfter(t, 1)
    /\ IF frame[t].key \in Resident(D)
       THEN Goto(t, "del_size", [frame[t] EXCEPT !.dkey = frame[t].key,
                                                 !.dform = frame[t].form,
                                                 !.stack = <<"set_bytes">> \o @])
       ELSE Goto(t, "set_bytes", frame[t])
    /\ UNCHANGED <<config, dict, last, ins>>

\* lines 115-116
SetBytes(t) ==
    /\ pc[t] = "set_bytes"
    /\ IF over_bytes(D, frame[t].item_size)
       THEN Goto(t, "popitem_base", [frame[t] EXCEPT !.lst = FALSE,
                                                     !.stack = <<"set_bytes">> \o @])
       ELSE Goto(t, "set_len", frame[t])
    /\ UNCHANGED <<config, dict, last, ins, lock>>

\* lines 118-120
SetLen(t) ==
    /\ pc[t] = "set_len"
    /\ IF over_len(D)
       THEN IF len(D) = maxlen
            THEN /\ Goto(t, "popitem_base", [frame[t] EXCEPT !.lst = FALSE,
                                                             !.stack = <<"set_len">> \o @])
                 /\ UNCHANGED lock
            ELSE Raise(t)
       ELSE Goto(t, "set_store", frame[t]) /\ UNCHANGED lock
    /\ UNCHANGED <<config, dict, last, ins>>

\* line 122
SetStore(t) ==
    /\ pc[t] = "set_store"
    /\ Put(base_setitem(D, frame[t].key, frame[t].form, frame[t].vsize))
    /\ Goto(t, "set_account", frame[t])
    /\ UNCHANGED <<config, last, ins, lock>>

\* line 123, and the end of the with block
SetAccount(t) ==
    /\ pc[t] = "set_account"
    /\ current_size' = current_size + frame[t].item_size
    /\ lock' = LockAfter(t, -1)
    /\ Return(t, frame[t])
    /\ UNCHANGED <<config, order, items, accounted, last, ins>>

\* del d[key]
CallDelItem(t, k, f) ==
    /\ Idle(t)
    /\ Enter(t, "del_size", [frame[t] EXCEPT !.dkey = k, !.dform = f])
    /\ UNCHANGED <<config, dict, last, ins, lock>>

\* lines 131-134
DelSize(t) ==
    /\ pc[t] = "del_size"
    /\ Free(t)
    /\ IF frame[t].dkey \in Resident(D)
       THEN /\ current_size' = current_size - measured(D, frame[t].dkey, frame[t].dform)
            /\ lock' = LockAfter(t, 1)
            /\ Goto(t, "del_remove", frame[t])
       ELSE /\ current_size' = current_size
            /\ lock' = LockAfter(t, 0)
            /\ Return(t, [frame[t] EXCEPT !.dkey = None, !.dform = None])
    /\ UNCHANGED <<config, order, items, accounted, last, ins>>

\* line 135, and the end of the with block
DelRemove(t) ==
    /\ pc[t] = "del_remove"
    /\ Put(base_delitem(D, frame[t].dkey))
    /\ lock' = LockAfter(t, -1)
    /\ Return(t, [frame[t] EXCEPT !.dkey = None, !.dform = None])
    /\ UNCHANGED <<config, last, ins>>

\* d.pop(key, default)
CallPop(t, k, f, default) ==
    /\ Idle(t)
    /\ Enter(t, "pop_base", [frame[t] EXCEPT !.key = k, !.form = f, !.vsize = default])
    /\ UNCHANGED <<config, dict, last, ins, lock>>

\* super().pop(key) or super().popitem() of key object (k, f), lines 153-154 and 180-181:
\* the base class removes the entry itself, or calls the overridden __delitem__
BaseRemove(t, k, f) ==
    LET g == [frame[t] EXCEPT !.prev_size = current_size,
                              !.element_size = measured(D, k, f)]
    IN  /\ lock' = LockAfter(t, 1)
        /\ IF hook
           THEN /\ Goto(t, "del_size", [g EXCEPT !.dkey = k, !.dform = f,
                                                 !.stack = <<"pop_fix">> \o @])
                /\ UNCHANGED dict
           ELSE /\ Goto(t, "pop_fix", g)
                /\ Put(base_delitem(D, k))

\* lines 146-154
PopBase(t) ==
    /\ pc[t] = "pop_base"
    /\ Free(t)
    /\ IF frame[t].key \notin Resident(D)
       THEN /\ IF frame[t].vsize = None
               THEN Raise(t)
               ELSE lock' = LockAfter(t, 0) /\ Return(t, frame[t])
            /\ UNCHANGED dict
       ELSE BaseRemove(t, frame[t].key, frame[t].form)
    /\ UNCHANGED <<config, last, ins>>

\* lines 156-163 and 182-189, and the end of the with block
PopFix(t) ==
    /\ pc[t] = "pop_fix"
    /\ LET fix == pop_fix(D, frame[t].prev_size, frame[t].element_size)
       IN  /\ Put(fix.d)
           /\ IF fix.outcome = "ok"
              THEN /\ lock' = LockAfter(t, -1)
                   /\ Return(t, [frame[t] EXCEPT !.prev_size = None, !.element_size = None])
              ELSE Raise(t)
    /\ UNCHANGED <<config, last, ins>>

\* d.popitem(last)
CallPopItem(t, lst) ==
    /\ Idle(t)
    /\ Enter(t, "popitem_base", [frame[t] EXCEPT !.lst = lst])
    /\ UNCHANGED <<config, dict, last, ins, lock>>

\* lines 179-181
PopItemBase(t) ==
    /\ pc[t] = "popitem_base"
    /\ Free(t)
    /\ IF order = <<>>
       THEN Raise(t) /\ UNCHANGED dict
       ELSE LET k == IF frame[t].lst THEN Newest(order) ELSE Head(order)
            IN  BaseRemove(t, k, items[k].form)
    /\ UNCHANGED <<config, last, ins>>

\* d.clear()
CallClear(t) ==
    /\ Idle(t)
    /\ Enter(t, "clear_base", frame[t])
    /\ UNCHANGED <<config, dict, last, ins, lock>>

\* lines 90-91
ClearBase(t) ==
    /\ pc[t] = "clear_base"
    /\ Free(t)
    /\ lock' = LockAfter(t, 1)
    /\ Put([clear(D) EXCEPT !.current_size = current_size])
    /\ Goto(t, "clear_size", frame[t])
    /\ UNCHANGED <<config, last, ins>>

\* line 92, and the end of the with block
ClearSize(t) ==
    /\ pc[t] = "clear_size"
    /\ current_size' = 0
    /\ lock' = LockAfter(t, -1)
    /\ Return(t, frame[t])
    /\ UNCHANGED <<config, order, items, accounted, last, ins>>

\* an exception in a method that holds no lock
Fail(t) == Goto(t, "idle", [NoFrame EXCEPT !.calls = frame[t].calls])

\* d.is_empty()
CallIsEmpty(t) ==
    /\ Idle(t)
    /\ Enter(t, "is_empty_len", frame[t])
    /\ UNCHANGED <<config, dict, last, ins, lock>>

\* line 66: len(self) is read, without the lock
IsEmptyLen(t) ==
    /\ pc[t] = "is_empty_len"
    /\ IF len(D) = 0 THEN Goto(t, "is_empty_size", frame[t]) ELSE Return(t, frame[t])
    /\ UNCHANGED <<config, dict, last, ins, lock>>

\* lines 67-69: current_size is read and checked, without the lock
IsEmptySize(t) ==
    /\ pc[t] = "is_empty_size"
    /\ IF current_size = 0 THEN Return(t, frame[t]) ELSE Fail(t)
    /\ UNCHANGED <<config, dict, last, ins, lock>>

\* d.is_full()
CallIsFull(t) ==
    /\ Idle(t)
    /\ Enter(t, "is_full_size", frame[t])
    /\ UNCHANGED <<config, dict, last, ins, lock>>

\* lines 78-79: current_size is read and checked, without the lock
IsFullSize(t) ==
    /\ pc[t] = "is_full_size"
    /\ IF maxsize_bytes # None /\ ~(current_size <= maxsize_bytes)
       THEN Fail(t)
       ELSE Goto(t, "is_full_len", frame[t])
    /\ UNCHANGED <<config, dict, last, ins, lock>>

\* lines 81-84: len(self) is read and checked, without the lock; the value
\* line 84 returns is not kept
IsFullLen(t) ==
    /\ pc[t] = "is_full_len"
    /\ IF maxlen # None /\ ~(len(D) <= maxlen) THEN Fail(t) ELSE Return(t, frame[t])
    /\ UNCHANGED <<config, dict, last, ins, lock>>

NextConc ==
    \E t \in Threads :
        \/ \E k \in KeysOf(t), f \in Forms, v \in ValSizes : CallSetItem(t, k, f, v)
        \/ SetStale(t)
        \/ SetBytes(t)
        \/ SetLen(t)
        \/ SetStore(t)
        \/ SetAccount(t)
        \/ \E k \in KeysOf(t), f \in Forms : CallDelItem(t, k, f)
        \/ DelSize(t)
        \/ DelRemove(t)
        \/ \E k \in KeysOf(t), f \in Forms, default \in Defaults : CallPop(t, k, f, default)
        \/ PopBase(t)
        \/ PopFix(t)
        \/ \E lst \in BOOLEAN : CallPopItem(t, lst)
        \/ PopItemBase(t)
        \/ CallClear(t)
        \/ ClearBase(t)
        \/ ClearSize(t)
        \/ CallIsEmpty(t)
        \/ IsEmptyLen(t)
        \/ IsEmptySize(t)
        \/ CallIsFull(t)
        \/ IsFullSize(t)
        \/ IsFullLen(t)

SpecConc == Init /\ [][NextConc]_vars

\* a statement of the call thread t is in
Step(t) ==
    \/ SetStale(t) \/ SetBytes(t) \/ SetLen(t) \/ SetStore(t) \/ SetAccount(t)
    \/ DelSize(t) \/ DelRemove(t)
    \/ PopBase(t) \/ PopFix(t) \/ PopItemBase(t)
    \/ ClearBase(t) \/ ClearSize(t)
    \/ IsEmptyLen(t) \/ IsEmptySize(t) \/ IsFullSize(t) \/ IsFullLen(t)

\* the threads of SpecConc, storing values that all measure the same
NextFair ==
    \E t \in Threads :
        \/ \E k \in KeysOf(t), f \in Forms : CallSetItem(t, k, f, 1)
        \/ \E k \in KeysOf(t), f \in Forms : CallDelItem(t, k, f)
        \/ \E k \in KeysOf(t), f \in Forms, default \in Defaults : CallPop(t, k, f, default)
        \/ \E lst \in BOOLEAN : CallPopItem(t, lst)
        \/ CallClear(t)
        \/ CallIsEmpty(t)
        \/ CallIsFull(t)
        \/ Step(t)

\* the threads under a fair scheduler: a thread that can run its next statement
\* does run it; nothing makes a thread start a call
FairSpecConc == Init /\ [][NextFair]_vars /\ \A t \in Threads : WF_vars(Step(t))

(***************************************************************************)
(* C1: with maxlen = N set, threads that interleave set and delete at any  *)
(* step never produce a state, intermediate or final, with more than N     *)
(* entries.                                                                *)
(***************************************************************************)
\* C1: the entry count never exceeds maxlen, in any state of any interleaving
C1_CountNeverAboveMaxlen == maxlen # None => Len(order) <= maxlen

\* a thread is in the popitem that the count loop of its set called, the oldest
\* entry already gone, while the other thread waits for the lock with its own key
C1_EvictedWhileOtherWaits ==
    \E t \in Threads, u \in Threads :
        /\ pc[t] = "pop_fix" /\ frame[t].stack = <<"set_len">>
        /\ pc[u] = "set_stale" /\ lock.owner = t
        /\ frame[t].key # frame[u].key
        /\ maxlen = 2 /\ Len(order) = maxlen - 1

(***************************************************************************)
(* C11: is_empty() and is_full() make their checks atomically with respect *)
(* to the mutators: between their reads no other thread is inside a        *)
(* mutator (holds the lock), and the checks they are about to make, that   *)
(* current_size is 0 when the count is 0, that current_size is at most     *)
(* maxsize_bytes and the count at most maxlen, do not fail.                *)
(***************************************************************************)
C11_ReadsAreAtomic ==
    \A t \in Threads :
        /\ pc[t] \in {"is_empty_size", "is_full_len"} => Free(t)
        /\ pc[t] = "is_empty_size" => current_size = 0
        /\ pc[t] = "is_full_size" => (maxsize_bytes # None => current_size <= maxsize_bytes)
        /\ pc[t] = "is_full_len" => (maxlen # None => len(D) <= maxlen)

(***************************************************************************)
(* C12: the constructor fails exactly for the configurations with no cap   *)
(* or with a supplied cap that is not positive, and accepts every          *)
(* configuration with at least one cap and all supplied caps positive.     *)
(***************************************************************************)
C12_BadCaps ==
    \/ maxlen = None /\ maxsize_bytes = None
    \/ maxlen # None /\ maxlen <= 0
    \/ maxsize_bytes # None /\ maxsize_bytes <= 0

C12_NewStep ==
    (last.op = "new" /\ last'.op = "init")
    => (last'.outcome # "ok" <=> C12_BadCaps)

\* C12: construction is rejected iff no cap is given or a given cap is <= 0
C12_ConstructionChecksCaps == [][C12_NewStep]_vars

(***************************************************************************)
(* C13: pop(key, default) of an absent key returns default when it is not  *)
(* None and raises KeyError when it is, and changes nothing; pop of a      *)
(* resident key removes that entry only, returns its value and keeps the   *)
(* other entries in their order.                                           *)
(***************************************************************************)
\* the entries other than k are what they were
C13_OthersKept(k) ==
    /\ order' = SelectSeq(order, LAMBDA x : x # k)
    /\ DOMAIN items' = Resident(D) \ {k}
    /\ \A x \in Resident(D) \ {k} : items'[x] = items[x]

C13_PopStep ==
    Did("pop") =>
        IF last'.resident
        THEN /\ last'.outcome = "ok"
             /\ last'.ret = items[last'.key].vsize
             /\ C13_OthersKept(last'.key)
        ELSE /\ last'.outcome = (IF last'.vsize = None THEN "KeyError" ELSE "ok")
             /\ last'.ret = last'.vsize
             /\ UNCHANGED <<order, items, current_size>>

C14_DeleteStep ==
    (Did("delete") /\ ~last'.resident)
    => /\ last'.outcome = "ok"
       /\ UNCHANGED <<order, items, current_size>>

\* C14: the delete of an absent key is a silent no-op
C14_DeleteAbsentIsNoOp == [][C14_DeleteStep]_vars

C14_DeletedAbsentKey ==
    /\ last.op = "delete" /\ ~last.resident
    /\ last.key \notin Resident(D)
    /\ Len(order) = 2

(***************************************************************************)
(* C15: popitem(last=False) / popitem(last=True) of a dictionary with no   *)
(* entries raises KeyError and leaves the state as it was, the count 0 and *)
(* current_size 0; otherwise it removes and returns the entry at the       *)
(* front / back of the order.                                              *)
(***************************************************************************)
C15_IsPopItem == last'.op \in {"popitem_oldest", "popitem_newest"}

C15_End == IF last'.op = "popitem_newest" THEN Newest(order) ELSE Head(order)

C15_TookTheEnd ==
    /\ last'.outcome = "ok"
    /\ last'.key = C15_End
    /\ last'.ret = items[C15_End].vsize
    /\ order' = SelectSeq(order, LAMBDA x : x # C15_End)
    /\ items' = [x \in Resident(D) \ {C15_End} |-> items[x]]

C15_RaisedOnEmpty ==
    /\ last'.outcome = "KeyError"
    /\ UNCHANGED <<order, items, current_size>>

\* C15: popitem of an empty dictionary raises KeyError and leaves the count 0
\* and current_size 0; of a non-empty one, it takes the entry at the end asked for
C15_PopItemOnEmptyOrNot ==
    [][C15_IsPopItem =>
          IF order = <<>>
          THEN C15_RaisedOnEmpty /\ Len(order') = 0 /\ current_size' = 0
          ELSE C15_TookTheEnd]_vars

(***************************************************************************)
(* C16: with positive caps, set of an admissible item (cost at most        *)
(* maxsize_bytes when that is set) terminates: its loops evict at most as  *)
(* many entries as were resident and never call popitem on an empty        *)
(* dictionary, so no KeyError escapes from set.                            *)
(***************************************************************************)
C16_SetStep ==
    (Did("set") /\ ~(maxsize_bytes # None /\ ItemCost(last') > maxsize_bytes))
    => /\ last'.outcome # "KeyError"
       /\ Len(last'.evicted) <= Len(order)

\* C16: no set of an admissible item evicts from an empty dictionary
C16_SetNeverEvictsFromEmpty == [][C16_SetStep]_vars

(***************************************************************************)
(* C17: under fair scheduling every call that was started returns,         *)
(* normally or with an error, and leaves the lock released; the nested     *)
(* acquisitions of the owning thread never block, a call that raises       *)
(* inside "with self.lock" releases the lock, and no deadlock is reachable.*)
(***************************************************************************)
\* the statements that enter "with self.lock"
C17_Acquires == {"set_stale", "del_size", "pop_base", "popitem_base", "clear_base"}

\* thread t can run its next statement
C17_CanRun(t) == pc[t] # "idle" /\ (pc[t] \in C17_Acquires => Free(t))

C17_NoDeadlock == (\E t \in Threads : pc[t] # "idle") => \E t \in Threads : C17_CanRun(t)

\* a thread that holds the lock is never made to wait for it
C17_OwnerNeverBlocks == \A t \in Threads : lock.owner = t => C17_CanRun(t)

C17_LockReleased ==
    /\ \A t \in Threads : pc[t] = "idle" => lock.owner # t
    /\ lock.owner = None <=> lock.count = 0

\* C17: every started call returns and leaves the lock released, and no
\* deadlock is reachable
C17_EveryCallReturns ==
    /\ [](C17_NoDeadlock /\ C17_OwnerNeverBlocks /\ C17_LockReleased)
    /\ \A t \in Threads : (pc[t] # "idle") ~> (pc[t] = "idle" /\ lock.owner # t)

\* a set that holds the lock is about to call popitem on an empty dictionary,
\* which raises inside the "with self.lock" blocks of both methods
C17_RaisesInNestedLock ==
    \E t \in Threads :
        /\ pc[t] = "popitem_base" /\ frame[t].stack # <<>> /\ order = <<>>
        /\ lock.owner = t /\ lock.count = 1

(***************************************************************************)
(* C18: pop and popitem take the removed entry's cost from current_size    *)
(* exactly once whether or not the base class calls the overridden         *)
(* __delitem__: from the same state both variants lead to the same         *)
(* contents, order and current_size, and the assertion of the variant that *)
(* calls __delitem__ never fails.                                          *)
(***************************************************************************)
\* pop / popitem of key object (k, f) in the variant with hook = h
C18_Variant(k, f, h) == pop_fix(base_pop(D, k, f, h), current_size, measured(D, k, f))

\* in this state the two variants remove any resident entry alike
C18_SameInBoth ==
    \A k \in Resident(D), f \in Forms :
        /\ C18_Variant(k, f, TRUE) = C18_Variant(k, f, FALSE)
        /\ C18_Variant(k, f, TRUE).outcome = "ok"
        /\ C18_Variant(k, f, TRUE).d.current_size = current_size - measured(D, k, f)

\* the key object a pop or popitem measured
C18_Form == IF last'.op = "pop" THEN last'.form ELSE items[last'.key].form

\* a pop or popitem that removed an entry did what the other variant would have done
C18_PopStep ==
    (last'.op \in {"pop", "popitem_oldest", "popitem_newest"} /\ last'.key \in Resident(D))
    => /\ last'.outcome = "ok"
       /\ D' = C18_Variant(last'.key, C18_Form, ~hook).d

\* C18: the variant that calls __delitem__ and the one that does not agree
\* on every pop and popitem, and the assertion of lines 163 and 189 holds
C18_HookVariantsAgree == []C18_SameInBoth /\ [][C18_PopStep]_vars

\* the base class called __delitem__ for the entry a pop removed
C18_PoppedThroughHook ==
    /\ hook /\ last.op = "pop" /\ last.resident /\ last.outcome = "ok"
    /\ order # <<>>
    /\ current_size # AccountedSum(D)

(***************************************************************************)
(* C19: under a positive maxlen, with or without a byte cap, the count is  *)
(* maxlen every time the body of the count loop of set runs, so the        *)
(* assertion of line 119 never fails and the count loop evicts at most one *)
(* entry per insertion.                                                    *)
(***************************************************************************)
\* the result of the byte loop of the set call just made, before its count loop
C19_AfterByteLoop ==
    evict_bytes([d |-> drop_stale(D, last'.key, last'.form), outcome |-> "ok",
                 evicted |-> <<>>], ItemCost(last'))

C19_SetStep ==
    (Did("set") /\ maxlen # None /\ last'.outcome # "MemoryError")
    => /\ last'.outcome # "AssertionError"
       /\ C19_AfterByteLoop.outcome = "ok" =>
              /\ len(C19_AfterByteLoop.d) <= maxlen
              /\ Len(last'.evicted) - Len(C19_AfterByteLoop.evicted) <= 1

\* C19: the count loop finds the count at maxlen, never above, and evicts at most once
C19_CountLoopEvictsAtMostOnce == [][C19_SetStep]_vars

\* the count loop of a set evicted the only entry; there is no byte cap
C19_CountLoopEvicted ==
    /\ last.op = "set" /\ last.outcome = "ok" /\ ~last.resident
    /\ maxlen = 1 /\ maxsize_bytes = None
    /\ Len(last.evicted) = 1

(***************************************************************************)
(* C20: the reads (lookup, containment test, count, iteration, is_empty,   *)
(* is_full) leave contents, order and current_size unchanged, and so do    *)
(* not change which entry is evicted next.                                 *)
(***************************************************************************)
C20_Reads == {"getitem", "contains", "len", "iter", "is_empty", "is_full"}

C20_ReadStep ==
    last'.op \in C20_Reads
    => /\ UNCHANGED <<order, items, current_size>>
       /\ popitem(D, FALSE)' = popitem(D, FALSE)

\* C20: a read changes nothing of the dictionary, the next eviction included
C20_ReadsChangeNothing == [][C20_ReadStep]_vars

\* the oldest of two entries has been looked up, and is still the oldest
C20_ReadTheOldest ==
    /\ last.op = "getitem" /\ last.outcome = "ok"
    /\ Len(order) = 2
    /\ last.key = Head(order)

(***************************************************************************)
(* C21: is_full() predicts eviction: where is_full() is false, the set of  *)
(* a key that is not resident, with an item whose cost does not exceed     *)
(* maxsize_bytes, evicts no entry, under a count cap, a byte cap or both.  *)
(* As amended: provided the item fits in the room that is left, that is    *)
(* maxsize_bytes is unset or current_size + cost <= maxsize_bytes; under a *)
(* byte cap is_full() is true only when current_size equals the cap, and   *)
(* a dictionary that is not full evicts for an item larger than the room.  *)
(***************************************************************************)
C21_NewKeyWhereNotFull ==
    /\ Did("set")
    /\ ~last'.resident
    /\ ~(maxsize_bytes # None /\ ItemCost(last') > maxsize_bytes)
    /\ is_full(D) = "False"

C21_Fits == maxsize_bytes = None \/ current_size + ItemCost(last') <= maxsize_bytes

====
